---- MODULE Spec2Model ----
(***************************************************************************)
(* pytests/iroha_cli_tests/models/asset.py: the AssetDefinition and Asset  *)
(* dataclasses.  Strings are sequences of one-character strings; an        *)
(* Optional[int] is the empty set (None) or a singleton {k}.  Objects live *)
(* in two heaps (defs, assets) indexed by object identity; an Asset holds  *)
(* the identity of its AssetDefinition, so a definition can be shared.     *)
(***************************************************************************)
EXTENDS Integers, Sequences, FiniteSets, TLC

VARIABLES defs, assets, built_defs, built_assets, nwrites, ret

vars == <<defs, assets, built_defs, built_assets, nwrites, ret>>

(* ------------------------------ bounds -------------------------------- *)

\* longest name / domain enumerated by SpecPure
MaxLen == 2

\* number of attribute assignments in one behaviour of Spec
MaxWrites == 1

(* ------------------------------ history ------------------------------- *)
\* built_defs, built_assets: the constructor arguments of each object
\* nwrites: the attribute assignments made so far
\* ret: the last operation, the object it was called on and what it returned

(* ------------------------------ values -------------------------------- *)

Alphabet == {"a", "#"}

RECURSIVE StringsOfLen(_)
StringsOfLen(n) ==
    IF n = 0 THEN {<<>>}
    ELSE {Append(s, c) : s \in StringsOfLen(n - 1), c \in Alphabet}

Strings == UNION {StringsOfLen(n) : n \in 0..MaxLen}

Empty == <<>>
Xor == <<"x", "o", "r">>
Soramitsu == <<"s", "o", "r", "a", "m", "i", "t", "s", "u">>
AliceAtWonderland ==
    <<"a", "l", "i", "c", "e", "@", "w", "o", "n", "d", "e", "r", "l", "a", "n", "d">>
NoDomainAccount == <<"a", "l", "i", "c", "e">>
Hundred == <<"1", "0", "0">>
Abc == <<"a", "b", "c">>
XorSoramitsu ==
    <<"x", "o", "r", "#", "s", "o", "r", "a", "m", "i", "t", "s", "u">>
XorSoramitsu100 ==
    <<"x", "o", "r", "#", "s", "o", "r", "a", "m", "i", "t", "s", "u", ":", "1", "0", "0">>

\* Optional[int]
None == {}
Some(k) == {k}

\* the objects a behaviour may allocate
DefIds == {1, 2}
AssetIds == {1}

\* arguments used by Spec
HeapNames == {Empty, Xor}
HeapDomains == {Empty, Soramitsu}
HeapScales == {None, Some(-1), Some(0)}
HeapAccounts == {AliceAtWonderland, NoDomainAccount}
HeapValues == {Hundred, Abc}

\* arguments used by SpecPure
PureScales == {None, Some(0)}

(* ------------------------- AssetDefinition ---------------------------- *)

\* a changed default: scale: int = 0
DefaultScale_zero == Some(0)

\* scale: Optional[int] = None
DefaultScale == None

\* a constructor that clamps a negative scale
AssetDefinition_init_clamped(n, d, s) ==
    [name |-> n, domain |-> d,
     scale |-> IF \E k \in s : k < 0 THEN Some(0) ELSE s]

\* the generated __init__: stores the three fields verbatim
AssetDefinition_init(n, d, s) == [name |-> n, domain |-> d, scale |-> s]

\* a __repr__ in the dataclass default style would not be the identity
AssetDefinition_repr_swapped(self) == self.domain \o <<"#">> \o self.name

\* f"{self.name}#{self.domain}"
AssetDefinition_repr(self) == self.name \o <<"#">> \o self.domain

\* an identity in the account style, name@domain
AssetDefinition_get_id_at(self) == self.name \o <<"@">> \o self.domain

\* an identity without its separator
AssetDefinition_get_id_nosep(self) == self.name \o self.domain

\* f"{self.name}#{self.domain}"
AssetDefinition_get_id(self) == self.name \o <<"#">> \o self.domain

\* an equality that leaves scale out of the comparison
AssetDefinition_eq_noscale(self, other) ==
    <<self.name, self.domain>> = <<other.name, other.domain>>

\* the generated __eq__: both are AssetDefinition, so the field tuples compare
AssetDefinition_eq(self, other) ==
    <<self.name, self.domain, self.scale>>
        = <<other.name, other.domain, other.scale>>

(* ------------------------------- Asset -------------------------------- *)

\* the generated __init__: definition is a reference (an object identity)
Asset_init(d, a, v) == [definition |-> d, account |-> a, value |-> v]

\* a display form that shows the account
Asset_repr_account(self) ==
    AssetDefinition_get_id(defs[self.definition]) \o <<":">> \o self.account

\* a display form cached when the asset was built
Asset_repr_cached(self) ==
    LET a == CHOOSE a \in DOMAIN assets : assets[a] = self
        b == built_assets[a]
    IN  AssetDefinition_get_id(built_defs[b.definition]) \o <<":">> \o b.value

\* f"{self.definition.get_id()}:{self.value}"
Asset_repr(self) ==
    AssetDefinition_get_id(defs[self.definition]) \o <<":">> \o self.value

\* an accessor that returns the float the docstring promises
Asset_get_value_float(self) == self.value \o <<".", "0">>

\* return self.value
Asset_get_value(self) == self.value

(* ------------------------------ state --------------------------------- *)

Returned(op, target, val) ==
    [op |-> op, target |-> target, val |-> val, raised |-> FALSE]

NoCall == Returned("none", 0, <<>>)

Init ==
    /\ defs = <<>>
    /\ assets = <<>>
    /\ built_defs = <<>>
    /\ built_assets = <<>>
    /\ nwrites = 0
    /\ ret = NoCall

\* two definitions already built from arbitrary arguments
InitPure ==
    /\ defs \in [DefIds -> {AssetDefinition_init(n, d, s) :
                               n \in Strings, d \in Strings, s \in PureScales}]
    /\ assets = <<>>
    /\ built_defs = defs
    /\ built_assets = <<>>
    /\ nwrites = 0
    /\ ret = NoCall

(* ----------------------------- operations ----------------------------- *)

\* AssetDefinition(n, d, s)
NewAssetDefinition3(n, d, s) ==
    /\ Len(defs) < Cardinality(DefIds)
    /\ defs' = Append(defs, AssetDefinition_init(n, d, s))
    /\ built_defs' = Append(built_defs, [name |-> n, domain |-> d, scale |-> s])
    /\ ret' = Returned("AssetDefinition3", Len(defs) + 1, <<n, d, s>>)
    /\ UNCHANGED <<assets, built_assets, nwrites>>

\* AssetDefinition(n, d): scale takes its default
NewAssetDefinition2(n, d) ==
    /\ Len(defs) < Cardinality(DefIds)
    /\ defs' = Append(defs, AssetDefinition_init(n, d, DefaultScale))
    /\ built_defs' = Append(built_defs, defs'[Len(defs) + 1])
    /\ ret' = Returned("AssetDefinition2", Len(defs) + 1, <<n, d>>)
    /\ UNCHANGED <<assets, built_assets, nwrites>>

\* Asset(definition, account, value)
NewAsset(d, a, v) ==
    /\ Len(assets) < Cardinality(AssetIds)
    /\ d \in DOMAIN defs
    /\ assets' = Append(assets, Asset_init(d, a, v))
    /\ built_assets' = Append(built_assets, [definition |-> d, account |-> a, value |-> v])
    /\ ret' = Returned("Asset", Len(assets) + 1, <<d, a, v>>)
    /\ UNCHANGED <<defs, built_defs, nwrites>>

\* d.get_id()
GetId(i) ==
    /\ i \in DOMAIN defs
    /\ ret' = Returned("get_id", i, AssetDefinition_get_id(defs[i]))
    /\ UNCHANGED <<defs, assets, built_defs, built_assets, nwrites>>

\* repr(d)
DefRepr(i) ==
    /\ i \in DOMAIN defs
    /\ ret' = Returned("def_repr", i, AssetDefinition_repr(defs[i]))
    /\ UNCHANGED <<defs, assets, built_defs, built_assets, nwrites>>

\* d == e
DefEq(i, j) ==
    /\ i \in DOMAIN defs
    /\ j \in DOMAIN defs
    /\ ret' = Returned("def_eq", <<i, j>>, AssetDefinition_eq(defs[i], defs[j]))
    /\ UNCHANGED <<defs, assets, built_defs, built_assets, nwrites>>

\* repr(a)
AssetRepr(a) ==
    /\ a \in DOMAIN assets
    /\ ret' = Returned("asset_repr", a, Asset_repr(assets[a]))
    /\ UNCHANGED <<defs, assets, built_defs, built_assets, nwrites>>

\* an accessor that also rewrites the stored value
GetValue_rewriting(a) ==
    /\ a \in DOMAIN assets
    /\ ret' = Returned("get_value", a, Asset_get_value(assets[a]))
    /\ assets' = [assets EXCEPT ![a].value = Asset_get_value_float(assets[a])]
    /\ UNCHANGED <<defs, built_defs, built_assets, nwrites>>

\* a.get_value()
GetValue(a) ==
    /\ a \in DOMAIN assets
    /\ ret' = Returned("get_value", a, Asset_get_value(assets[a]))
    /\ UNCHANGED <<defs, assets, built_defs, built_assets, nwrites>>

\* d.name = v, d.domain = v, d.scale = v: the dataclass is not frozen
SetDefAttr(i, f, v) ==
    /\ nwrites < MaxWrites
    /\ i \in DOMAIN defs
    /\ \/ f = "name" /\ v \in HeapNames
       \/ f = "domain" /\ v \in HeapDomains
       \/ f = "scale" /\ v \in HeapScales
    /\ defs' = [defs EXCEPT ![i][f] = v]
    /\ nwrites' = nwrites + 1
    /\ ret' = Returned("setattr", i, <<>>)
    /\ UNCHANGED <<assets, built_defs, built_assets>>

\* a.definition = v, a.account = v, a.value = v: the dataclass is not frozen
SetAssetAttr(a, f, v) ==
    /\ nwrites < MaxWrites
    /\ a \in DOMAIN assets
    /\ \/ f = "definition" /\ v \in DOMAIN defs
       \/ f = "account" /\ v \in HeapAccounts
       \/ f = "value" /\ v \in HeapValues
    /\ assets' = [assets EXCEPT ![a][f] = v]
    /\ nwrites' = nwrites + 1
    /\ ret' = Returned("setattr", a, <<>>)
    /\ UNCHANGED <<defs, built_defs, built_assets>>

DefWrites ==
    ({"name"} \X HeapNames) \cup ({"domain"} \X HeapDomains)
        \cup ({"scale"} \X HeapScales)

AssetWrites ==
    ({"definition"} \X DefIds) \cup ({"account"} \X HeapAccounts)
        \cup ({"value"} \X HeapValues)

Next ==
    \/ \E n \in HeapNames, d \in HeapDomains, s \in HeapScales :
           NewAssetDefinition3(n, d, s)
    \/ \E n \in HeapNames, d \in HeapDomains : NewAssetDefinition2(n, d)
    \/ \E d \in DefIds, a \in HeapAccounts, v \in HeapValues : NewAsset(d, a, v)
    \/ \E i \in DefIds : GetId(i)
    \/ \E i \in DefIds : DefRepr(i)
    \/ \E i \in DefIds, j \in DefIds : DefEq(i, j)
    \/ \E a \in AssetIds : AssetRepr(a)
    \/ \E a \in AssetIds : GetValue(a)
    \/ \E i \in DefIds, w \in DefWrites : SetDefAttr(i, w[1], w[2])
    \/ \E a \in AssetIds, w \in AssetWrites : SetAssetAttr(a, w[1], w[2])

Spec == Init /\ [][Next]_vars

NextPure ==
    \/ \E i \in DefIds : GetId(i)
    \/ \E i \in DefIds : DefRepr(i)
    \/ \E i \in DefIds, j \in DefIds : DefEq(i, j)

SpecPure == InitPure /\ [][NextPure]_vars

(* ------------------------------ helpers ------------------------------- *)

\* r is x, then the characters of sep, then y, position by position
IsJoin(r, x, sep, y) ==
    /\ Len(r) = Len(x) + Len(sep) + Len(y)
    /\ \A k \in 1..Len(x) : r[k] = x[k]
    /\ \A k \in 1..Len(sep) : r[Len(x) + k] = sep[k]
    /\ \A k \in 1..Len(y) : r[Len(x) + Len(sep) + k] = y[k]

HasHash(x) == \E k \in 1..Len(x) : x[k] = "#"

(* ------------------------------- claims ------------------------------- *)

\* C1: get_id() of AssetDefinition(n, d, scale) returns n, then "#", then d,
\* for every n and d (empty ones included) and every scale, and the call leaves
\* every field of the record as it was built.
C1_GetIdIsNameHashDomain ==
    ret.op = "get_id" =>
        /\ IsJoin(ret.val, built_defs[ret.target].name, <<"#">>,
                  built_defs[ret.target].domain)
        /\ defs[ret.target] = built_defs[ret.target]

\* C1 witness: get_id() was called on a definition with empty name and domain
C1_Witness ==
    /\ ret.op = "get_id"
    /\ defs[ret.target].name = Empty
    /\ defs[ret.target].domain = Empty
    /\ defs[ret.target].scale = Some(0)
    /\ ret.val = <<"#">>

\* C2: the display form of Asset(D, a, v) is get_id(D), then ":", then v; the
\* asset built from ("xor", "soramitsu"), "alice@wonderland", "100" displays
\* as "xor#soramitsu:100", so the account is no part of the display form.
C2_AssetDisplay ==
    (ret.op = "asset_repr" /\ nwrites = 0) =>
        LET b == built_assets[ret.target]
            D == built_defs[b.definition]
        IN  /\ ret.val = AssetDefinition_get_id(D) \o <<":">> \o b.value
            /\ (D.name = Xor /\ D.domain = Soramitsu /\ b.value = Hundred)
                   => ret.val = XorSoramitsu100

\* C2 witness: the display form of the spec's example asset was read
C2_Witness ==
    /\ ret.op = "asset_repr"
    /\ nwrites = 0
    /\ built_assets[ret.target].account = AliceAtWonderland
    /\ built_assets[ret.target].value = Hundred
    /\ built_defs[built_assets[ret.target].definition].name = Xor
    /\ built_defs[built_assets[ret.target].definition].domain = Soramitsu
    /\ ret.val = XorSoramitsu100

C4_DefReprIsGetId ==
    ret.op = "def_repr" => ret.val = AssetDefinition_get_id(defs[ret.target])

\* C4 witness: the display form was read after the record's name was changed
C4_Witness ==
    /\ ret.op = "def_repr"
    /\ nwrites > 0
    /\ defs[ret.target].name # built_defs[ret.target].name
    /\ defs[ret.target].domain = Soramitsu

\* C5: d == e holds exactly when name, domain and scale all agree, also for
\* two objects built separately; a difference in any one field, scale
\* included, makes them unequal.
C5_StructuralEquality ==
    ret.op = "def_eq" =>
        LET x == defs[ret.target[1]]
            y == defs[ret.target[2]]
        IN  /\ (x.name = y.name /\ x.domain = y.domain /\ x.scale = y.scale)
                   => ret.val = TRUE
            /\ (x.name # y.name \/ x.domain # y.domain \/ x.scale # y.scale)
                   => ret.val = FALSE

\* C5 witness: two distinct objects with the same three fields compared equal
C5_Witness ==
    /\ ret.op = "def_eq"
    /\ ret.target[1] # ret.target[2]
    /\ defs[ret.target[1]].name = <<"a", "#">>
    /\ defs[ret.target[1]] = defs[ret.target[2]]
    /\ ret.val = TRUE

\* C6: AssetDefinition("xor", "soramitsu") with no scale argument has scale
\* None, which is not the scale 0, and its identity is "xor#soramitsu".
C6_DefaultScaleIsNone ==
    ret.op = "AssetDefinition2" =>
        /\ defs[ret.target].scale = None
        /\ defs[ret.target].scale # Some(0)
        /\ ret.val = <<Xor, Soramitsu>>
               => AssetDefinition_get_id(defs[ret.target]) = XorSoramitsu

\* C6 witness: AssetDefinition("xor", "soramitsu") has just been built
C6_Witness ==
    /\ ret.op = "AssetDefinition2"
    /\ ret.val = <<Xor, Soramitsu>>
    /\ defs[ret.target].name = Xor
    /\ defs[ret.target].domain = Soramitsu

\* C7 as stated: after any sequence of operations, attribute assignments
\* included, every field holds the value the record was constructed with.
C7_FieldsNeverChange ==
    /\ defs = built_defs
    /\ assets = built_assets

\* C7 as amended: get_id, get_value, the display forms and the equality
\* comparison change no field, so a record that has had no attribute assigned
\* holds the values it was constructed with; an attribute assignment, which
\* the record types permit, does change the field.
C7_ReadsChangeNothing ==
    nwrites = 0 =>
        /\ defs = built_defs
        /\ assets = built_assets

\* C7 witness: an asset and two definitions exist, get_value() has just run and
\* nothing was assigned
C7_Witness ==
    /\ ret.op = "get_value"
    /\ nwrites = 0
    /\ Len(defs) = 2
    /\ Len(assets) = 1

\* C8: whenever the display form of an Asset is read, it is the name of the
\* definition the asset refers to now, "#", that definition's domain now, ":",
\* and the asset's value now; get_id() likewise is made of the current name
\* and domain.  Nothing is cached at construction.
C8_DisplayIsCurrent ==
    /\ ret.op = "asset_repr" =>
           LET D == defs[assets[ret.target].definition]
           IN  IsJoin(ret.val, D.name \o <<"#">> \o D.domain, <<":">>,
                      assets[ret.target].value)
    /\ ret.op = "get_id" =>
           IsJoin(ret.val, defs[ret.target].name, <<"#">>, defs[ret.target].domain)

\* C8 witness: the display form was read after an assignment changed what it
\* shows
C8_Witness ==
    /\ ret.op = "asset_repr"
    /\ nwrites > 0
    /\ LET b == built_assets[ret.target]
       IN  ret.val # AssetDefinition_get_id(built_defs[b.definition])
                         \o <<":">> \o b.value

\* C9: no operation raises, and the constructors store their arguments as
\* given: an empty name or domain, a negative scale, a non-numeric value and
\* an account without a domain are all kept verbatim.
C9_NoErrorsVerbatim ==
    /\ ret.raised = FALSE
    /\ ret.op = "AssetDefinition3" =>
           /\ defs[ret.target].name = ret.val[1]
           /\ defs[ret.target].domain = ret.val[2]
           /\ defs[ret.target].scale = ret.val[3]
    /\ ret.op = "AssetDefinition2" =>
           /\ defs[ret.target].name = ret.val[1]
           /\ defs[ret.target].domain = ret.val[2]
    /\ ret.op = "Asset" =>
           /\ assets[ret.target].definition = ret.val[1]
           /\ assets[ret.target].account = ret.val[2]
           /\ assets[ret.target].value = ret.val[3]

\* C9 witness: the display form of an asset with a non-numeric value and an
\* account without a domain, on a definition with empty name, empty domain
\* and scale -1, was read and returned
C9_Witness ==
    /\ ret.op = "asset_repr"
    /\ ret.raised = FALSE
    /\ nwrites = 0
    /\ assets[ret.target].value = Abc
    /\ assets[ret.target].account = NoDomainAccount
    /\ defs[assets[ret.target].definition]
           = [name |-> Empty, domain |-> Empty, scale |-> Some(-1)]
    /\ ret.val = <<"#", ":", "a", "b", "c">>

\* C10: among definitions whose names hold no "#", get_id() returns the same
\* string for two of them exactly when their names agree and their domains
\* agree; scale plays no part.
C10_IdentityInjective ==
    ret.op = "get_id" =>
        \A j \in DOMAIN defs :
            LET x == defs[ret.target]
                y == defs[j]
            IN  (~HasHash(x.name) /\ ~HasHash(y.name)) =>
                    ((ret.val = AssetDefinition_get_id(y))
                         <=> (x.name = y.name /\ x.domain = y.domain))

\* C10 witness: two definitions with "#"-free names, the same domain holding a
\* "#", different names and different scales; get_id() was called on one
C10_Witness ==
    /\ ret.op = "get_id"
    /\ \E j \in DOMAIN defs :
           /\ j # ret.target
           /\ defs[ret.target].name = <<"a">>
           /\ defs[j].name = <<"a", "a">>
           /\ defs[ret.target].domain = <<"#", "a">>
           /\ defs[j].domain = <<"#", "a">>
           /\ defs[ret.target].scale # defs[j].scale
           /\ ret.val # AssetDefinition_get_id(defs[j])

\* with a "#" in a name two different (name, domain) pairs do share an identity
HashInNameCollides ==
    \E i \in DOMAIN defs, j \in DOMAIN defs :
        /\ HasHash(defs[i].name)
        /\ <<defs[i].name, defs[i].domain>> # <<defs[j].name, defs[j].domain>>
        /\ AssetDefinition_get_id(defs[i]) = AssetDefinition_get_id(defs[j])

====
